---- MODULE Spec2Model ----
(***************************************************************************)
(* QdrantStore (core/vector_store/qdrant_store.py): the vector store       *)
(* adapter, its retry executor and the collection lifecycle, over an       *)
(* abstract Qdrant engine.  Strings that take part in the point id         *)
(* derivation are sequences of one-character strings.                      *)
(***************************************************************************)
EXTENDS Integers, Sequences, FiniteSets

VARIABLES
    collections,   \* the engine: collection name -> [size, distance, points]
    max_retries,   \* self.max_retries
    dimensions,    \* settings.VECTOR_DIMENSIONS
    closed,        \* close() has been called on the store
    pc,            \* per caller: "idle", "retry", "sleep", "returned", "raised", "done"
    site,          \* per caller: the remote operation _retry_operation wraps
    call,          \* per caller: the contract method running and its arguments
    locals,        \* per caller: points and stored_ids of store_embeddings
    attempt,       \* per caller: _retry_operation's attempt
    last_error,    \* per caller: _retry_operation's last_error
    ret,           \* per caller: what the remote operation returned or raised
    result,        \* per caller: what the contract method returned
    crossed,       \* per caller: an exception left the contract method
    log,           \* per caller: the remote attempts of the running call
    delays,        \* per caller: sleeps taken by the running _retry_operation
    exhausted,     \* per caller: sites whose _retry_operation raised in this call
    pre,           \* per caller: the engine and history at the start of the call
    lastInit,      \* outcome of the most recent completed initialize()
    prevStored,    \* per caller: what the call before wrote, if a successful store
    prevDeleted    \* per caller: the document the call before deleted, if it returned true

cfg     == <<max_retries, dimensions>>
frame   == <<pc, site, call, locals, attempt, last_error, ret, result>>
ghost   == <<crossed, log, delays, exhausted, pre, lastInit, prevStored, prevDeleted>>
vars    == <<collections, closed, cfg, frame, ghost>>

----------------------------------------------------------------------------
(* Bounds of the model *)

MaxRetries == 2      \* max_retries ranges over 1..MaxRetries
MaxBatch   == 2      \* longest chunk list and identifier list passed in
MaxK       == 2      \* largest k of query_similar

Callers    == {1, 2}
SeqCallers == {1}

----------------------------------------------------------------------------
(* Values *)

\* Every failed attempt raises an error of its own: Error(kind, n) is the one
\* raised by the n-th attempt of the running _retry_operation.
Error(kind, n) == <<kind, n>>
None           == Error("None", 0)
TypeError      == Error("TypeError", 0)
CollectionName == "morphik_embeddings"
OtherName      == "other"
Cosine         == "Cosine"
Dims           == {1, 2}    \* sizes a persisted collection may have
Configured     == {2}       \* settings.VECTOR_DIMENSIONS

DocA  == <<"a">>
DocA1 == <<"a", "_", "1">>
DocB  == <<"b">>
DocIds == {DocA, DocA1, DocB}

EmptyMeta == {}
SomeMeta  == {<<"k", "v">>}

DocumentChunk(d, n, c, e, m, s) ==
    [document_id |-> d, chunk_number |-> n, content |-> c,
     embedding |-> e, metadata |-> m, score |-> s]

\* The chunks callers pass to store_embeddings.
ChunkPool ==
    { DocumentChunk(DocA,  0, "x", <<1, 0>>, EmptyMeta, 0),
      DocumentChunk(DocA,  0, "y", <<0, 1>>, SomeMeta,  0),
      DocumentChunk(DocA,  1, "x", <<>>,     SomeMeta,  0),
      DocumentChunk(DocA1, 0, "y", <<0, 1>>, EmptyMeta, 0) }

Identifiers == {<<DocA, 0>>, <<DocA1, 0>>, <<DocB, 0>>}
QueryVectors == {<<1, 0>>, <<1>>}

SeqsUpTo(S, n) == UNION {[1..m -> S] : m \in 0..n}

NoDocIds       == [none |-> TRUE,  list |-> <<>>]
DocIdList(l)   == [none |-> FALSE, list |-> l]
DocIdArgs      == {NoDocIds, DocIdList(<<>>), DocIdList(<<DocA>>)}

Range(s) == {s[i] : i \in DOMAIN s}

----------------------------------------------------------------------------
(* Identifier scheme and the translation between chunks and points *)

DigitChar(d) == <<"0", "1", "2", "3", "4", "5", "6", "7", "8", "9">>[d + 1]

RECURSIVE Str(_)
\* str() of a non-negative int, as in the f-strings of the source
Str(n) == IF n < 10 THEN <<DigitChar(n)>>
          ELSE Str(n \div 10) \o <<DigitChar(n % 10)>>

\* the identifier keeps of document_id only what precedes its first "_"
PointIdOfFirstPart(document_id, chunk_number) ==
    LET at == {i \in DOMAIN document_id : document_id[i] = "_"}
        first == IF at = {} THEN Len(document_id) + 1
                 ELSE CHOOSE i \in at : \A j \in at : i <= j
    IN SubSeq(document_id, 1, first - 1) \o <<"_">> \o Str(chunk_number)

\* f"{document_id}_{chunk_number}"
PointId(document_id, chunk_number) == document_id \o <<"_">> \o Str(chunk_number)

\* chunk.metadata or {}
MetadataOrEmpty(m) == IF m = {} THEN {} ELSE m

Payload(chunk) ==
    [document_id |-> chunk.document_id, chunk_number |-> chunk.chunk_number,
     content |-> chunk.content, metadata |-> MetadataOrEmpty(chunk.metadata)]

PointStruct(chunk) ==
    [id |-> PointId(chunk.document_id, chunk.chunk_number),
     vector |-> chunk.embedding, payload |-> Payload(chunk)]

\* no chunk is skipped
HasEmbeddingAlways(chunk) == TRUE

\* `if not chunk.embedding: continue`
HasEmbedding(chunk) == chunk.embedding # <<>>

\* The loop of store_embeddings: the chunks that become points, in input order.
Kept(chunks) == SelectSeq(chunks, HasEmbedding)

StorePoints(chunks) == [i \in 1..Len(Kept(chunks)) |-> PointStruct(Kept(chunks)[i])]

StoredIds(chunks) == [i \in 1..Len(Kept(chunks)) |-> StorePoints(chunks)[i].id]

\* the conversion leaves the score at its default
ChunkOfScoredUnscored(sp) ==
    DocumentChunk(sp.payload.document_id, sp.payload.chunk_number, sp.payload.content,
                  <<>>, sp.payload.metadata, 0)

\* query_similar's conversion of one scored point
ChunkOfScored(sp) ==
    DocumentChunk(sp.payload.document_id, sp.payload.chunk_number, sp.payload.content,
                  <<>>, sp.payload.metadata, sp.score)

\* get_chunks_by_id's conversion of one retrieved point
ChunkOfRecord(point) ==
    DocumentChunk(point.payload.document_id, point.payload.chunk_number,
                  point.payload.content, <<>>, point.payload.metadata, 0)

\* the point ids are derived with the two parts swapped
PointIdsSwapped(chunk_identifiers) ==
    [i \in 1..Len(chunk_identifiers) |->
        Str(chunk_identifiers[i][2]) \o <<"_">> \o chunk_identifiers[i][1]]

\* point_ids of get_chunks_by_id
PointIdsOf(chunk_identifiers) ==
    [i \in 1..Len(chunk_identifiers) |->
        PointId(chunk_identifiers[i][1], chunk_identifiers[i][2])]

\* search_filter of query_similar: `if doc_ids:` is false for None and for []
SearchFilter(doc_ids) ==
    IF ~doc_ids.none /\ doc_ids.list # <<>>
    THEN [active |-> TRUE,  any |-> Range(doc_ids.list)]
    ELSE [active |-> FALSE, any |-> {}]

----------------------------------------------------------------------------
(* The engine behind AsyncQdrantClient *)

NoPoints == [id \in {} |-> 0]

Collection(size) == [size |-> size, distance |-> Cosine, points |-> NoPoints]

Exists(cs, name) == name \in DOMAIN cs

Without(f, ks) == [k \in (DOMAIN f) \ ks |-> f[k]]

With(f, k, v) == [x \in (DOMAIN f) \cup {k} |-> IF x = k THEN v ELSE f[x]]

RECURSIVE UpsertAll(_, _)
\* points written one after the other: a later point replaces an earlier one
UpsertAll(pts, new) ==
    IF new = <<>> THEN pts
    ELSE UpsertAll(With(pts, new[1].id, [vector |-> new[1].vector, payload |-> new[1].payload]),
                   Tail(new))

RECURSIVE Dot(_, _)
Dot(q, v) == IF q = <<>> \/ v = <<>> THEN 0 ELSE q[1] * v[1] + Dot(Tail(q), Tail(v))

Injective(s) == \A i, j \in DOMAIN s : s[i] = s[j] => i = j

Orderings(S) == {s \in [1..Cardinality(S) -> S] : Injective(s)}

\* the batches callers pass: up to n chunks of S, no chunk listed twice
Batches(S, n) == {s \in SeqsUpTo(S, n) : Injective(s)}

MinOf(a, b) == IF a < b THEN a ELSE b

Passes(flt, point) == ~flt.active \/ point.payload.document_id \in flt.any

\* client.search: the `limit` best points that pass the filter, best first; the
\* order among equal scores is the engine's
SearchResults(c, query_vector, limit, flt) ==
    LET match == {id \in DOMAIN c.points : Passes(flt, c.points[id])}
        sc(id) == Dot(query_vector, c.points[id].vector)
        n == MinOf(limit, Cardinality(match))
        picks == {s \in [1..n -> match] :
                    /\ Injective(s)
                    /\ \A i \in 1..n : \A j \in 1..n : i < j => sc(s[i]) >= sc(s[j])
                    /\ \A id \in match \ Range(s) : \A i \in 1..n : sc(id) <= sc(s[i])}
    IN {[i \in 1..n |-> [id |-> s[i], payload |-> c.points[s[i]].payload, score |-> sc(s[i])]]
          : s \in picks}

\* client.retrieve: the points that exist among ids, once each, in the engine's order
RetrieveResults(c, ids) ==
    {[i \in DOMAIN s |-> [id |-> s[i], payload |-> c.points[s[i]].payload]]
       : s \in Orderings(Range(ids) \cap DOMAIN c.points)}

\* the filter also matches the document ids that go on after document_id with "_"
DeleteMatchingPrefix(c, document_id) ==
    LET n == Len(document_id) + 1
        hit(d) == \/ d = document_id
                  \/ Len(d) >= n /\ SubSeq(d, 1, n) = document_id \o <<"_">>
    IN [c EXCEPT !.points =
          Without(c.points, {id \in DOMAIN c.points : hit(c.points[id].payload.document_id)})]

\* client.delete with a FilterSelector on document_id
DeleteMatching(c, document_id) ==
    [c EXCEPT !.points =
        Without(c.points, {id \in DOMAIN c.points : c.points[id].payload.document_id = document_id})]

Req(op, size, points, query_vector, limit, flt, ids, document_id) ==
    [op |-> op, size |-> size, points |-> points, query_vector |-> query_vector,
     limit |-> limit, filter |-> flt, ids |-> ids, document_id |-> document_id]

NoFilter == [active |-> FALSE, any |-> {}]
SimpleReq(op) == Req(op, 0, <<>>, <<>>, 0, NoFilter, <<>>, <<>>)

Writes == {"delete_collection", "create_collection", "upsert", "delete"}

\* whether the engine serves the request or answers with an error
EngineAccepts(cs, req) ==
    CASE req.op = "get_collections"    -> TRUE
      [] req.op = "get_collection"     -> Exists(cs, CollectionName)
      [] req.op = "delete_collection"  -> TRUE
      [] req.op = "create_collection"  -> ~Exists(cs, CollectionName)
      [] req.op = "upsert"             ->
            /\ Exists(cs, CollectionName)
            /\ \A i \in DOMAIN req.points :
                  Len(req.points[i].vector) = cs[CollectionName].size
      [] req.op = "search"             ->
            /\ Exists(cs, CollectionName)
            /\ Len(req.query_vector) = cs[CollectionName].size
      [] req.op = "retrieve"           -> Exists(cs, CollectionName)
      [] req.op = "delete"             -> Exists(cs, CollectionName)

\* the engine after serving the request
EngineApply(cs, req) ==
    CASE req.op = "delete_collection"  -> Without(cs, {CollectionName})
      [] req.op = "create_collection"  ->
            With(cs, CollectionName, Collection(req.size))
      [] req.op = "upsert"             ->
            [cs EXCEPT ![CollectionName].points = UpsertAll(@, req.points)]
      [] req.op = "delete"             ->
            [cs EXCEPT ![CollectionName] = DeleteMatching(@, req.document_id)]
      [] OTHER                         -> cs

Ret(names, size, points, err) == [names |-> names, size |-> size, points |-> points, err |-> err]
NoRet == Ret({}, 0, <<>>, None)

\* the values the engine may answer with
EngineReturns(cs, req) ==
    CASE req.op = "get_collections" -> {Ret(DOMAIN cs, 0, <<>>, None)}
      [] req.op = "get_collection"  -> {Ret({}, cs[CollectionName].size, <<>>, None)}
      [] req.op = "search"          ->
            {Ret({}, 0, r, None) :
                r \in SearchResults(cs[CollectionName], req.query_vector, req.limit, req.filter)}
      [] req.op = "retrieve"        ->
            {Ret({}, 0, r, None) : r \in RetrieveResults(cs[CollectionName], req.ids)}
      [] OTHER                      -> {NoRet}

----------------------------------------------------------------------------
(* Calls, results and the bookkeeping of a running call *)

Call(op, chunks, query_embedding, k, doc_ids, chunk_identifiers, document_id) ==
    [op |-> op, chunks |-> chunks, query_embedding |-> query_embedding, k |-> k,
     doc_ids |-> doc_ids, chunk_identifiers |-> chunk_identifiers,
     document_id |-> document_id]

PlainCall(op) == Call(op, <<>>, <<>>, 0, NoDocIds, <<>>, <<>>)

Result(tag, ok, ids, chunks) == [tag |-> tag, ok |-> ok, ids |-> ids, chunks |-> chunks]
Pending        == Result("pending", FALSE, <<>>, <<>>)
RetBool(b)     == Result("bool", b, <<>>, <<>>)
RetPair(b, l)  == Result("pair", b, l, <<>>)
RetChunks(cs)  == Result("chunks", TRUE, <<>>, cs)
RetNone        == Result("none", TRUE, <<>>, <<>>)

NoLocals == [points |-> <<>>, stored_ids |-> <<>>]

NoPre == [collections |-> <<>>, lastInit |-> "none"]

LogEntry(s, ok, err) == [site |-> s, ok |-> ok, err |-> err]

\* the request _retry_operation sends for caller p
Request(p) ==
    CASE site[p] = "create_collection" ->
            Req("create_collection", dimensions, <<>>, <<>>, 0, NoFilter, <<>>, <<>>)
      [] site[p] = "upsert" ->
            Req("upsert", 0, locals[p].points, <<>>, 0, NoFilter, <<>>, <<>>)
      [] site[p] = "search" ->
            Req("search", 0, <<>>, call[p].query_embedding, call[p].k,
                SearchFilter(call[p].doc_ids), <<>>, <<>>)
      [] site[p] = "retrieve" ->
            Req("retrieve", 0, <<>>, <<>>, 0, NoFilter,
                PointIdsOf(call[p].chunk_identifiers), <<>>)
      [] site[p] = "delete" ->
            Req("delete", 0, <<>>, <<>>, 0, NoFilter, <<>>, call[p].document_id)
      [] OTHER -> SimpleReq(site[p])

\* a contract method is entered
Enter(p, c) ==
    /\ pc[p] = "idle"
    /\ ~closed
    /\ call' = [call EXCEPT ![p] = c]
    /\ pre' = [pre EXCEPT ![p] = [collections |-> collections, lastInit |-> lastInit]]

\* what entering a method up to its first remote call leaves alone
Entering == UNCHANGED <<collections, closed, cfg, result, crossed, log, exhausted,
                        lastInit, prevStored, prevDeleted>>

\* what entering a method that returns at once leaves alone
Shortcut == UNCHANGED <<collections, closed, cfg, crossed, log, exhausted, prevStored,
                        prevDeleted>>

\* _retry_operation(operation) is entered: attempt = 0, last_error = None
BeginRetry(p, s, loc) ==
    /\ pc' = [pc EXCEPT ![p] = "retry"]
    /\ site' = [site EXCEPT ![p] = s]
    /\ locals' = [locals EXCEPT ![p] = loc]
    /\ attempt' = [attempt EXCEPT ![p] = 0]
    /\ last_error' = [last_error EXCEPT ![p] = None]
    /\ ret' = [ret EXCEPT ![p] = NoRet]
    /\ delays' = [delays EXCEPT ![p] = 0]

\* the outcome class of a completed initialize()
InitOutcome(r, l) ==
    IF ~r.ok THEN "false"
    ELSE IF \E i \in DOMAIN l : l[i].site = "delete_collection" /\ l[i].ok
         THEN "migrated" ELSE "true"

\* the frame of caller p is left
Leave(p) ==
    /\ pc' = [pc EXCEPT ![p] = "done"]
    /\ site' = [site EXCEPT ![p] = "none"]
    /\ locals' = [locals EXCEPT ![p] = NoLocals]
    /\ attempt' = [attempt EXCEPT ![p] = 0]
    /\ last_error' = [last_error EXCEPT ![p] = None]
    /\ ret' = [ret EXCEPT ![p] = NoRet]
    /\ delays' = [delays EXCEPT ![p] = 0]

\* the contract method op of caller p returns r, having made the attempts l
Return(p, op, r, l) ==
    /\ Leave(p)
    /\ result' = [result EXCEPT ![p] = r]
    /\ lastInit' = IF op = "initialize" THEN InitOutcome(r, l) ELSE lastInit

\* an exception leaves the contract method of caller p
Propagate(p) ==
    /\ Leave(p)
    /\ crossed' = [crossed EXCEPT ![p] = TRUE]
    /\ UNCHANGED <<result, lastInit>>

\* what a step inside a call leaves alone
Inside == UNCHANGED <<collections, closed, cfg, call, log, exhausted, pre, prevStored,
                      prevDeleted>>

Continue == UNCHANGED <<result, crossed, lastInit>>

At(p, s, where) == pc[p] = where /\ site[p] = s

\* what a store of chunks writes: for every pair (document_id, chunk_number) of a
\* chunk that is kept, the content and metadata of the last such chunk
LastWritten(chunks) ==
    LET kept == Kept(chunks)
        pairs == {<<kept[i].document_id, kept[i].chunk_number>> : i \in DOMAIN kept}
        last(pair) == CHOOSE i \in DOMAIN kept :
                        /\ <<kept[i].document_id, kept[i].chunk_number>> = pair
                        /\ \A j \in DOMAIN kept :
                              <<kept[j].document_id, kept[j].chunk_number>> = pair => j <= i
    IN [pair \in pairs |->
          [content |-> kept[last(pair)].content, metadata |-> kept[last(pair)].metadata]]

\* the caller has taken the result and may call again
Resume(p) ==
    /\ pc[p] = "done"
    /\ pc' = [pc EXCEPT ![p] = "idle"]
    /\ prevStored' = [prevStored EXCEPT ![p] =
          IF call[p].op = "store_embeddings" /\ result[p].tag = "pair" /\ result[p].ok
          THEN LastWritten(call[p].chunks) ELSE <<>>]
    /\ call' = [call EXCEPT ![p] = PlainCall("none")]
    /\ result' = [result EXCEPT ![p] = Pending]
    /\ crossed' = [crossed EXCEPT ![p] = FALSE]
    /\ log' = [log EXCEPT ![p] = <<>>]
    /\ exhausted' = [exhausted EXCEPT ![p] = {}]
    /\ pre' = [pre EXCEPT ![p] = NoPre]
    /\ prevDeleted' = [prevDeleted EXCEPT ![p] =
          IF call[p].op = "delete_chunks_by_document_id" /\ result[p] = RetBool(TRUE)
          THEN call[p].document_id ELSE <<>>]
    /\ UNCHANGED <<collections, closed, cfg, site, locals, attempt, last_error, ret,
                   delays, lastInit>>

----------------------------------------------------------------------------
(* _retry_operation *)

\* the handler does not count the failed attempt
FailedWithoutCounting(p, e, cs) ==
    /\ collections' = cs
    /\ last_error' = [last_error EXCEPT ![p] = e]
    /\ log' = [log EXCEPT ![p] = Append(log[p], LogEntry(site[p], FALSE, e))]
    /\ pc' = [pc EXCEPT ![p] = IF attempt[p] + 1 < max_retries THEN "sleep" ELSE "retry"]
    /\ UNCHANGED <<closed, cfg, site, call, locals, attempt, ret, result, crossed, delays,
                   exhausted, pre, lastInit, prevStored, prevDeleted>>

\* the handler sleeps after the final attempt as well
FailedSleepsAlways(p, e, cs) ==
    /\ collections' = cs
    /\ last_error' = [last_error EXCEPT ![p] = e]
    /\ attempt' = [attempt EXCEPT ![p] = attempt[p] + 1]
    /\ log' = [log EXCEPT ![p] = Append(log[p], LogEntry(site[p], FALSE, e))]
    /\ pc' = [pc EXCEPT ![p] = "sleep"]
    /\ UNCHANGED <<closed, cfg, site, call, locals, ret, result, crossed, delays,
                   exhausted, pre, lastInit, prevStored, prevDeleted>>

\* the handler keeps the first error instead of the latest
FailedKeepsFirst(p, e, cs) ==
    /\ collections' = cs
    /\ last_error' = [last_error EXCEPT ![p] = IF last_error[p] = None THEN e ELSE last_error[p]]
    /\ attempt' = [attempt EXCEPT ![p] = attempt[p] + 1]
    /\ log' = [log EXCEPT ![p] = Append(log[p], LogEntry(site[p], FALSE, e))]
    /\ pc' = [pc EXCEPT ![p] = IF attempt[p] + 1 < max_retries THEN "sleep" ELSE "retry"]
    /\ UNCHANGED <<closed, cfg, site, call, locals, ret, result, crossed, delays,
                   exhausted, pre, lastInit, prevStored, prevDeleted>>

\* `except Exception as e`: an attempt ended in error e; cs is the engine after it
Failed(p, e, cs) ==
    /\ collections' = cs
    /\ last_error' = [last_error EXCEPT ![p] = e]
    /\ attempt' = [attempt EXCEPT ![p] = attempt[p] + 1]
    /\ log' = [log EXCEPT ![p] = Append(log[p], LogEntry(site[p], FALSE, e))]
    /\ pc' = [pc EXCEPT ![p] = IF attempt[p] + 1 < max_retries THEN "sleep" ELSE "retry"]
    /\ UNCHANGED <<closed, cfg, site, call, locals, ret, result, crossed, delays,
                   exhausted, pre, lastInit, prevStored, prevDeleted>>

\* the first attempt is made whatever max_retries is
RetryAttemptOkAtLeastOnce(p) ==
    /\ pc[p] = "retry"
    /\ attempt[p] = 0 \/ attempt[p] < max_retries
    /\ EngineAccepts(collections, Request(p))
    /\ \E r \in EngineReturns(collections, Request(p)) :
          ret' = [ret EXCEPT ![p] = r]
    /\ collections' = EngineApply(collections, Request(p))
    /\ log' = [log EXCEPT ![p] = Append(log[p], LogEntry(site[p], TRUE, None))]
    /\ pc' = [pc EXCEPT ![p] = "returned"]
    /\ UNCHANGED <<closed, cfg, site, call, locals, attempt, last_error, result,
                   crossed, delays, exhausted, pre, lastInit, prevStored, prevDeleted>>

\* `return await operation(*args, **kwargs)`
RetryAttemptOk(p) ==
    /\ pc[p] = "retry"
    /\ attempt[p] < max_retries
    /\ EngineAccepts(collections, Request(p))
    /\ \E r \in EngineReturns(collections, Request(p)) :
          ret' = [ret EXCEPT ![p] = r]
    /\ collections' = EngineApply(collections, Request(p))
    /\ log' = [log EXCEPT ![p] = Append(log[p], LogEntry(site[p], TRUE, None))]
    /\ pc' = [pc EXCEPT ![p] = "returned"]
    /\ UNCHANGED <<closed, cfg, site, call, locals, attempt, last_error, result,
                   crossed, delays, exhausted, pre, lastInit, prevStored, prevDeleted>>

\* the call fails in transit: before the engine saw it, or, for a write the
\* engine serves, after the engine applied it
RetryAttemptFail(p) ==
    /\ pc[p] = "retry"
    /\ attempt[p] < max_retries
    /\ \E applied \in BOOLEAN :
          /\ applied => site[p] \in Writes /\ EngineAccepts(collections, Request(p))
          /\ Failed(p, Error("transit", attempt[p] + 1),
                    IF applied THEN EngineApply(collections, Request(p)) ELSE collections)

\* the engine answers with an error
RetryAttemptRejected(p) ==
    /\ pc[p] = "retry"
    /\ attempt[p] < max_retries
    /\ ~EngineAccepts(collections, Request(p))
    /\ Failed(p, Error("rejected", attempt[p] + 1), collections)

\* the next attempt follows without a delay
RetryWithoutSleep(p) ==
    /\ pc[p] = "sleep"
    /\ pc' = [pc EXCEPT ![p] = "retry"]
    /\ UNCHANGED <<collections, closed, cfg, site, call, locals, attempt, last_error,
                   ret, result, crossed, log, delays, exhausted, pre, lastInit,
                   prevStored, prevDeleted>>

\* `await asyncio.sleep(self.retry_delay)`
RetrySleep(p) ==
    /\ pc[p] = "sleep"
    /\ pc' = [pc EXCEPT ![p] = "retry"]
    /\ delays' = [delays EXCEPT ![p] = delays[p] + 1]
    /\ UNCHANGED <<collections, closed, cfg, site, call, locals, attempt, last_error,
                   ret, result, crossed, log, exhausted, pre, lastInit, prevStored,
                   prevDeleted>>

\* `raise last_error`; raising None is a TypeError
Raised(err) == IF err = None THEN TypeError ELSE err

\* the loop condition fails: `raise last_error`
RetryExhausted(p) ==
    /\ pc[p] = "retry"
    /\ ~(attempt[p] < max_retries)
    /\ ret' = [ret EXCEPT ![p] = Ret({}, 0, <<>>, Raised(last_error[p]))]
    /\ pc' = [pc EXCEPT ![p] = "raised"]
    /\ exhausted' = [exhausted EXCEPT ![p] = exhausted[p] \cup {site[p]}]
    /\ UNCHANGED <<collections, closed, cfg, site, call, locals, attempt, last_error,
                   result, crossed, log, delays, pre, lastInit, prevStored, prevDeleted>>

----------------------------------------------------------------------------
(* initialize *)

\* initialize() up to the get_collections call
CallInitialize(p) ==
    /\ Enter(p, PlainCall("initialize"))
    /\ BeginRetry(p, "get_collections", NoLocals)
    /\ Entering

\* any(collection.name == self.collection_name for collection in ...)
CollectionExists(names) == \E name \in names : name = CollectionName

\* get_collections returned: look for the collection among the names
InitListed(p) ==
    /\ At(p, "get_collections", "returned")
    /\ LET collection_exists == CollectionExists(ret[p].names)
       IN IF collection_exists
          THEN BeginRetry(p, "get_collection", NoLocals)
          ELSE BeginRetry(p, "create_collection", NoLocals)
    /\ Inside /\ Continue

\* the failed listing is taken for a collection that exists
InitListFailedLooksUp(p) ==
    /\ At(p, "get_collections", "raised")
    /\ BeginRetry(p, "get_collection", NoLocals)
    /\ Inside /\ Continue

\* get_collections raised: `except Exception: collection_exists = False`
InitListFailed(p) ==
    /\ At(p, "get_collections", "raised")
    /\ BeginRetry(p, "create_collection", NoLocals)
    /\ Inside /\ Continue

\* the collection is recreated whatever its size
InitCheckedRecreates(p) ==
    /\ At(p, "get_collection", "returned")
    /\ BeginRetry(p, "delete_collection", NoLocals) /\ Continue
    /\ Inside

\* get_collection returned: compare the stored size with the configured one
InitChecked(p) ==
    /\ At(p, "get_collection", "returned")
    /\ LET current_dim == ret[p].size
       IN IF current_dim # dimensions
          THEN BeginRetry(p, "delete_collection", NoLocals) /\ Continue
          ELSE Return(p, "initialize", RetBool(TRUE), log[p]) /\ UNCHANGED crossed
    /\ Inside

\* a collection whose size could not be read is deleted before the creation
InitCheckFailedDeletes(p) ==
    /\ \/ At(p, "get_collection", "raised") /\ BeginRetry(p, "delete_collection", NoLocals)
       \/ At(p, "delete_collection", "raised") /\ BeginRetry(p, "create_collection", NoLocals)
    /\ Inside /\ Continue

\* get_collection or delete_collection raised: the inner handler sets
\* collection_exists = False and the creation follows
InitCheckFailed(p) ==
    /\ \/ At(p, "get_collection", "raised")
       \/ At(p, "delete_collection", "raised")
    /\ BeginRetry(p, "create_collection", NoLocals)
    /\ Inside /\ Continue

\* the deletion is not followed by the creation
InitDeletedReturns(p) ==
    /\ At(p, "delete_collection", "returned")
    /\ Return(p, "initialize", RetBool(TRUE), log[p])
    /\ Inside /\ UNCHANGED crossed

\* delete_collection returned: collection_exists = False
InitDeleted(p) ==
    /\ At(p, "delete_collection", "returned")
    /\ BeginRetry(p, "create_collection", NoLocals)
    /\ Inside /\ Continue

\* create_collection returned: `return True`
InitCreated(p) ==
    /\ At(p, "create_collection", "returned")
    /\ Return(p, "initialize", RetBool(TRUE), log[p])
    /\ Inside /\ UNCHANGED crossed

\* the outer handler reports success
InitFailedReturnsTrue(p) ==
    /\ At(p, "create_collection", "raised")
    /\ Return(p, "initialize", RetBool(TRUE), log[p])
    /\ Inside /\ UNCHANGED crossed

\* create_collection raised: the outer handler returns False
InitFailed(p) ==
    /\ At(p, "create_collection", "raised")
    /\ Return(p, "initialize", RetBool(FALSE), log[p])
    /\ Inside /\ UNCHANGED crossed

----------------------------------------------------------------------------
(* store_embeddings *)

\* store_embeddings(chunks) up to the upsert call, or to its early return
CallStoreEmbeddings(p) ==
    \E chunks \in Batches(ChunkPool, MaxBatch) :
        /\ Enter(p, Call("store_embeddings", chunks, <<>>, 0, NoDocIds, <<>>, <<>>))
        /\ LET points == StorePoints(chunks)
               stored_ids == StoredIds(chunks)
           IN IF chunks = <<>> \/ points = <<>>
              THEN Return(p, "store_embeddings", RetPair(TRUE, <<>>), <<>>) /\ Shortcut
              ELSE /\ BeginRetry(p, "upsert", [points |-> points, stored_ids |-> stored_ids])
                   /\ Entering

\* upsert returned: `return True, stored_ids`
StoreUpserted(p) ==
    /\ At(p, "upsert", "returned")
    /\ Return(p, "store_embeddings", RetPair(TRUE, locals[p].stored_ids), log[p])
    /\ Inside /\ UNCHANGED crossed

\* upsert raised and the handler lets the error through
StoreFailedUncaught(p) ==
    /\ At(p, "upsert", "raised")
    /\ Propagate(p)
    /\ Inside

\* upsert raised: `return False, []`
StoreFailed(p) ==
    /\ At(p, "upsert", "raised")
    /\ Return(p, "store_embeddings", RetPair(FALSE, <<>>), log[p])
    /\ Inside /\ UNCHANGED crossed

----------------------------------------------------------------------------
(* query_similar *)

\* query_similar(query_embedding, k, doc_ids) up to the search call
CallQuerySimilar(p) ==
    \E q \in QueryVectors, k \in 1..MaxK, doc_ids \in DocIdArgs :
        /\ Enter(p, Call("query_similar", <<>>, q, k, doc_ids, <<>>, <<>>))
        /\ BeginRetry(p, "search", NoLocals)
        /\ Entering

\* search returned: one DocumentChunk per scored point, in the order returned
QueryAnswered(p) ==
    /\ At(p, "search", "returned")
    /\ LET search_result == ret[p].points
           chunks == [i \in DOMAIN search_result |-> ChunkOfScored(search_result[i])]
       IN Return(p, "query_similar", RetChunks(chunks), log[p])
    /\ Inside /\ UNCHANGED crossed

\* search raised: `return []`
QueryFailed(p) ==
    /\ At(p, "search", "raised")
    /\ Return(p, "query_similar", RetChunks(<<>>), log[p])
    /\ Inside /\ UNCHANGED crossed

----------------------------------------------------------------------------
(* get_chunks_by_id *)

\* the empty identifier list is sent to the engine like any other
CallGetChunksByIdAlwaysRetrieves(p) ==
    \E chunk_identifiers \in SeqsUpTo(Identifiers, MaxBatch) :
        /\ Enter(p, Call("get_chunks_by_id", <<>>, <<>>, 0, NoDocIds, chunk_identifiers, <<>>))
        /\ BeginRetry(p, "retrieve", NoLocals) /\ Entering

\* get_chunks_by_id(chunk_identifiers) up to the retrieve call, or to its early return
CallGetChunksById(p) ==
    \E chunk_identifiers \in SeqsUpTo(Identifiers, MaxBatch) :
        /\ Enter(p, Call("get_chunks_by_id", <<>>, <<>>, 0, NoDocIds, chunk_identifiers, <<>>))
        /\ IF chunk_identifiers = <<>>
           THEN Return(p, "get_chunks_by_id", RetChunks(<<>>), <<>>) /\ Shortcut
           ELSE BeginRetry(p, "retrieve", NoLocals) /\ Entering

\* `if point.payload:`
HasPayload(point) == DOMAIN point.payload # {}

\* retrieve returned: one DocumentChunk per point that has a payload
GetRetrieved(p) ==
    /\ At(p, "retrieve", "returned")
    /\ LET points == SelectSeq(ret[p].points, HasPayload)
           chunks == [i \in DOMAIN points |-> ChunkOfRecord(points[i])]
       IN Return(p, "get_chunks_by_id", RetChunks(chunks), log[p])
    /\ Inside /\ UNCHANGED crossed

\* retrieve raised: `return []`
GetFailed(p) ==
    /\ At(p, "retrieve", "raised")
    /\ Return(p, "get_chunks_by_id", RetChunks(<<>>), log[p])
    /\ Inside /\ UNCHANGED crossed

----------------------------------------------------------------------------
(* delete_chunks_by_document_id *)

\* delete_chunks_by_document_id(document_id) up to the delete call
CallDeleteChunks(p) ==
    \E document_id \in DocIds :
        /\ Enter(p, Call("delete_chunks_by_document_id", <<>>, <<>>, 0, NoDocIds, <<>>,
                         document_id))
        /\ BeginRetry(p, "delete", NoLocals)
        /\ Entering

\* delete returned: `return True`
ChunksDeleted(p) ==
    /\ At(p, "delete", "returned")
    /\ Return(p, "delete_chunks_by_document_id", RetBool(TRUE), log[p])
    /\ Inside /\ UNCHANGED crossed

\* the handler reports success although the delete call raised
DeleteFailedReturnsTrue(p) ==
    /\ At(p, "delete", "raised")
    /\ Return(p, "delete_chunks_by_document_id", RetBool(TRUE), log[p])
    /\ Inside /\ UNCHANGED crossed

\* delete raised: `return False`
DeleteFailed(p) ==
    /\ At(p, "delete", "raised")
    /\ Return(p, "delete_chunks_by_document_id", RetBool(FALSE), log[p])
    /\ Inside /\ UNCHANGED crossed

----------------------------------------------------------------------------
(* close *)

\* close(): client.close() is awaited once, outside _retry_operation; an error
\* of it is logged and dropped.  The store is not used afterwards.
CallClose(p) ==
    /\ \A q \in Callers : pc[q] = "idle"
    /\ Enter(p, PlainCall("close"))
    /\ \E ok \in BOOLEAN :
          log' = [log EXCEPT ![p] =
                    <<LogEntry("close", ok, IF ok THEN None ELSE Error("transit", 1))>>]
    /\ Return(p, "close", RetNone, <<>>)
    /\ closed' = TRUE
    /\ UNCHANGED <<collections, cfg, crossed, exhausted, prevStored, prevDeleted>>

----------------------------------------------------------------------------
(* The specifications *)

InitialEngines ==
    {[n \in {OtherName} |-> Collection(1)]} \cup
    {[n \in {OtherName, CollectionName} |-> Collection(IF n = OtherName THEN 1 ELSE d)]
        : d \in Dims}

InitWith(retries) ==
    /\ collections \in InitialEngines
    /\ max_retries \in retries
    /\ dimensions \in Configured
    /\ closed = FALSE
    /\ pc = [p \in Callers |-> "idle"]
    /\ site = [p \in Callers |-> "none"]
    /\ call = [p \in Callers |-> PlainCall("none")]
    /\ locals = [p \in Callers |-> NoLocals]
    /\ attempt = [p \in Callers |-> 0]
    /\ last_error = [p \in Callers |-> None]
    /\ ret = [p \in Callers |-> NoRet]
    /\ result = [p \in Callers |-> Pending]
    /\ crossed = [p \in Callers |-> FALSE]
    /\ log = [p \in Callers |-> <<>>]
    /\ delays = [p \in Callers |-> 0]
    /\ exhausted = [p \in Callers |-> {}]
    /\ pre = [p \in Callers |-> NoPre]
    /\ lastInit = "none"
    /\ prevStored = [p \in Callers |-> <<>>]
    /\ prevDeleted = [p \in Callers |-> <<>>]

Init == InitWith(1..MaxRetries)

InitAnyRetries == InitWith(-1..MaxRetries)

Step(p) ==
    \/ CallInitialize(p) \/ InitListed(p) \/ InitListFailed(p) \/ InitChecked(p)
    \/ InitCheckFailed(p) \/ InitDeleted(p) \/ InitCreated(p) \/ InitFailed(p)
    \/ CallStoreEmbeddings(p) \/ StoreUpserted(p) \/ StoreFailed(p)
    \/ CallQuerySimilar(p) \/ QueryAnswered(p) \/ QueryFailed(p)
    \/ CallGetChunksById(p) \/ GetRetrieved(p) \/ GetFailed(p)
    \/ CallDeleteChunks(p) \/ ChunksDeleted(p) \/ DeleteFailed(p)
    \/ CallClose(p) \/ Resume(p)
    \/ RetryAttemptOk(p) \/ RetryAttemptFail(p) \/ RetryAttemptRejected(p)
    \/ RetrySleep(p) \/ RetryExhausted(p)

Next == \E p \in SeqCallers : Step(p)

\* one caller, max_retries >= 1
Spec == Init /\ [][Next]_vars

\* one caller, max_retries also 0 or negative
SpecAnyRetries == InitAnyRetries /\ [][Next]_vars

\* the steps inside a contract method of caller p: an attempt ends, in success
\* or in error, a sleep ends, the code after an awaited call runs
Running(p) ==
    \/ InitListed(p) \/ InitListFailed(p) \/ InitChecked(p) \/ InitCheckFailed(p)
    \/ InitDeleted(p) \/ InitCreated(p) \/ InitFailed(p)
    \/ StoreUpserted(p) \/ StoreFailed(p)
    \/ QueryAnswered(p) \/ QueryFailed(p)
    \/ GetRetrieved(p) \/ GetFailed(p)
    \/ ChunksDeleted(p) \/ DeleteFailed(p)
    \/ RetryAttemptOk(p) \/ RetryAttemptFail(p) \/ RetryAttemptRejected(p)
    \/ RetrySleep(p) \/ RetryExhausted(p)

\* one caller, max_retries >= 1; every remote call ends, every sleep ends and
\* the event loop resumes the coroutine that awaits them.  Callers are not
\* obliged to call.
SpecLive == Init /\ [][Next]_vars /\ \A p \in SeqCallers : WF_vars(Running(p))

\* the steps of an initialize() call when no request or response is lost: the
\* engine serves what it accepts and rejects the rest
InitializeStep(p) ==
    \/ CallInitialize(p) \/ InitListed(p) \/ InitChecked(p) \/ InitCheckFailed(p)
    \/ InitDeleted(p) \/ InitCreated(p) \/ InitFailed(p)
    \/ RetryAttemptOk(p) \/ RetryAttemptRejected(p)
    \/ RetrySleep(p) \/ RetryExhausted(p)

NextConcurrent == \E p \in Callers : InitializeStep(p)

\* two callers, each awaiting one initialize() on the same store, interleaved at
\* every await
SpecConcurrent == Init /\ [][NextConcurrent]_vars

----------------------------------------------------------------------------
(* Vocabulary of the properties *)

Done(p, op) == pc[p] = "done" /\ call[p].op = op

FailureFree(p) == \A i \in DOMAIN log[p] : log[p][i].ok

SitesOf(l) == [i \in DOMAIN l |-> l[i].site]

Issued(p, s) == \E i \in DOMAIN log[p] : log[p][i].site = s

Succeeded(p, s) == \E i \in DOMAIN log[p] : log[p][i].site = s /\ log[p][i].ok

\* attempts the running _retry_operation has made
Tried(p) == Cardinality({i \in DOMAIN log[p] : log[p][i].site = site[p]})

FailureSignal(op) ==
    CASE op = "initialize"                   -> RetBool(FALSE)
      [] op = "store_embeddings"             -> RetPair(FALSE, <<>>)
      [] op = "query_similar"                -> RetChunks(<<>>)
      [] op = "get_chunks_by_id"             -> RetChunks(<<>>)
      [] op = "delete_chunks_by_document_id" -> RetBool(FALSE)
      [] OTHER                               -> RetNone

ResultTag(op) ==
    CASE op = "initialize"                   -> "bool"
      [] op = "store_embeddings"             -> "pair"
      [] op = "query_similar"                -> "chunks"
      [] op = "get_chunks_by_id"             -> "chunks"
      [] op = "delete_chunks_by_document_id" -> "bool"
      [] OTHER                               -> "none"

\* the remote operation whose failure the method's own handler turns into its
\* failure signal
LastSite(op) ==
    CASE op = "initialize"                   -> "create_collection"
      [] op = "store_embeddings"             -> "upsert"
      [] op = "query_similar"                -> "search"
      [] op = "get_chunks_by_id"             -> "retrieve"
      [] op = "delete_chunks_by_document_id" -> "delete"
      [] OTHER                               -> "close"

Ready(cs) == Exists(cs, CollectionName) /\ cs[CollectionName].size = dimensions

----------------------------------------------------------------------------
(* C1 *)

\* C1: no exception leaves a contract method, whatever attempts fail and whatever
\* max_retries is (also 0 or negative): every call ends by returning a value of
\* the method's result type, and when the method's last remote operation raised
\* out of _retry_operation (or close() failed) the value is the documented
\* failure signal.
C1_NoExceptionCrosses ==
    \A p \in Callers :
        /\ ~crossed[p]
        /\ pc[p] = "done" =>
              /\ result[p].tag = ResultTag(call[p].op)
              /\ LastSite(call[p].op) \in exhausted[p] => result[p] = FailureSignal(call[p].op)
              /\ call[p].op = "close" => result[p] = RetNone

C1_Witness ==
    \E p \in Callers :
        /\ Done(p, "store_embeddings")
        /\ "upsert" \in exhausted[p]
        /\ result[p] = RetPair(FALSE, <<>>)

----------------------------------------------------------------------------
(* C2 *)

FailOpenSites == {"get_collections", "get_collection", "delete_collection"}

\* C2 as stated: whenever a _retry_operation of the call ran out of attempts, the
\* contract method returns its documented failure value.
C2_ExhaustionAlwaysFails ==
    \A p \in Callers :
        pc[p] = "done" /\ exhausted[p] # {} => result[p] = FailureSignal(call[p].op)

\* C2, amended: when every attempt fails, _retry_operation raises after exactly
\* max_retries attempts and max_retries - 1 sleeps; the method then returns its
\* failure value if the operation was upsert, search, retrieve, delete or
\* create_collection, whereas initialize() swallows the exhaustion of
\* get_collections, get_collection and delete_collection, goes on to
\* create_collection, and returns true exactly if that creation succeeds.
C2_RetryExhaustion ==
    \A p \in Callers :
        /\ pc[p] = "raised" =>
              /\ Tried(p) = max_retries
              /\ delays[p] = max_retries - 1
              /\ \A i \in DOMAIN log[p] : log[p][i].site = site[p] => ~log[p][i].ok
        /\ pc[p] = "done" /\ LastSite(call[p].op) \in exhausted[p] =>
              result[p] = FailureSignal(call[p].op)
        /\ pc[p] = "done" /\ exhausted[p] \cap FailOpenSites # {} =>
              /\ Issued(p, "create_collection")
              /\ result[p] = RetBool(Succeeded(p, "create_collection"))

C2_Witness ==
    \E p \in Callers :
        /\ pc[p] = "raised"
        /\ site[p] = "get_collections"
        /\ max_retries = MaxRetries
        /\ delays[p] = MaxRetries - 1

----------------------------------------------------------------------------
(* C3 *)

\* C3: when _retry_operation has made its max_retries attempts and all failed, the
\* error it raises is the error of the final attempt: that of attempt number
\* max_retries, the last one logged, and no other.
C3_RaisesLastError ==
    \A p \in Callers :
        pc[p] = "raised" /\ Tried(p) >= 1 =>
            /\ ret[p].err = log[p][Len(log[p])].err
            /\ ret[p].err[2] = max_retries
            /\ ret[p].err # TypeError

C3_Witness ==
    \E p \in Callers :
        /\ pc[p] = "raised"
        /\ Tried(p) >= 2
        /\ ret[p].err = Error("rejected", Tried(p))
        /\ log[p][Len(log[p]) - 1].err = Error("transit", Tried(p) - 1)

----------------------------------------------------------------------------
(* C4 *)

Destructive(p) == Issued(p, "delete_collection") \/ Issued(p, "create_collection")

\* C4: an initialize() during which no attempt fails returns true; and when the
\* initialize() before it had returned true (the configured dimensionality being
\* the same), it issues neither delete_collection nor create_collection and
\* leaves the collection, with the chunks stored in between, as it found it.
C4_IdempotentInitialize ==
    \A p \in Callers :
        Done(p, "initialize") /\ FailureFree(p) =>
            /\ result[p] = RetBool(TRUE)
            /\ pre[p].lastInit \in {"true", "migrated"} =>
                  /\ ~Destructive(p)
                  /\ collections = pre[p].collections

C4_Witness ==
    \E p \in Callers :
        /\ Done(p, "initialize") /\ FailureFree(p)
        /\ pre[p].lastInit = "true"
        /\ result[p] = RetBool(TRUE)
        /\ pre[p].collections[CollectionName].points # NoPoints
        /\ collections[CollectionName].points # NoPoints

----------------------------------------------------------------------------
(* C5 *)

Mismatched(cs) == Exists(cs, CollectionName) /\ cs[CollectionName].size # dimensions

\* C5: with a collection of another dimensionality in place and no attempt
\* failing, initialize() issues get_collections, get_collection,
\* delete_collection and create_collection in this order, returns true and leaves
\* an empty collection of the configured dimensionality and cosine distance; the
\* initialize() after such a migration, no attempt failing, issues no
\* delete_collection and no create_collection.
C5_DimensionMigration ==
    \A p \in Callers :
        Done(p, "initialize") /\ FailureFree(p) =>
            /\ Mismatched(pre[p].collections) =>
                  /\ SitesOf(log[p]) = <<"get_collections", "get_collection",
                                         "delete_collection", "create_collection">>
                  /\ result[p] = RetBool(TRUE)
                  /\ Exists(collections, CollectionName)
                  /\ collections[CollectionName] =
                        [size |-> dimensions, distance |-> Cosine, points |-> NoPoints]
            /\ pre[p].lastInit = "migrated" =>
                  /\ ~Destructive(p)
                  /\ result[p] = RetBool(TRUE)

C5_Witness ==
    \E p \in Callers :
        /\ Done(p, "initialize") /\ FailureFree(p)
        /\ pre[p].lastInit = "migrated"
        /\ SitesOf(log[p]) = <<"get_collections", "get_collection">>
        /\ lastInit = "true"

----------------------------------------------------------------------------
(* C6 *)

\* C6 as stated: initialize() returns true only with the collection in place at
\* the configured dimensionality, and false whenever one of its remote operations
\* ran out of attempts.
C6_FalseOnAnyExhaustion ==
    \A p \in Callers :
        Done(p, "initialize") =>
            /\ result[p].ok => Ready(collections)
            /\ exhausted[p] # {} => result[p] = RetBool(FALSE)

\* C6, amended: initialize() returns true only with the collection in place at
\* the configured dimensionality, and returns false if create_collection raises
\* after its retries are exhausted; when get_collections, get_collection or
\* delete_collection is exhausted it does not return false for that, it issues
\* create_collection and returns what that creation yields.
C6_InitializeResult ==
    \A p \in Callers :
        Done(p, "initialize") =>
            /\ result[p].tag = "bool"
            /\ result[p].ok => Ready(collections)
            /\ "create_collection" \in exhausted[p] => ~result[p].ok
            /\ exhausted[p] \cap FailOpenSites # {} =>
                  /\ log[p][Len(log[p])].site = "create_collection"
                  /\ result[p].ok = log[p][Len(log[p])].ok

C6_Witness ==
    \E p \in Callers :
        /\ Done(p, "initialize")
        /\ "get_collections" \in exhausted[p]
        /\ Succeeded(p, "create_collection")
        /\ result[p] = RetBool(TRUE)
        /\ Ready(collections)

----------------------------------------------------------------------------
(* C7 *)

\* C7: when initialize() returns, whatever attempts failed, the collection is as
\* it was before the call or is in place with the configured dimensionality.
C7_NeverLeftDeleted ==
    \A p \in Callers :
        Done(p, "initialize") =>
            \/ collections = pre[p].collections
            \/ Ready(collections)

----------------------------------------------------------------------------
(* C8 *)

\* the chunks of a batch that carry an embedding, in input order
NonEmpty(chunks) == SelectSeq(chunks, LAMBDA c : Len(c.embedding) > 0)

\* the last chunk of S stored under identifier id
LastUnder(S, id) ==
    LET at == {i \in DOMAIN S : PointId(S[i].document_id, S[i].chunk_number) = id}
    IN S[CHOOSE i \in at : \A j \in at : j <= i]

\* the engine holds, next to what it held at the start of the call, exactly S
WroteExactly(p, S) ==
    LET before == pre[p].collections[CollectionName].points
        after  == collections[CollectionName].points
        ids    == {PointId(S[i].document_id, S[i].chunk_number) : i \in DOMAIN S}
    IN /\ DOMAIN after = DOMAIN before \cup ids
       /\ \A id \in DOMAIN after \ ids : after[id] = before[id]
       /\ \A id \in ids :
             LET c == LastUnder(S, id)
             IN /\ after[id].vector = c.embedding
                /\ after[id].payload.document_id = c.document_id
                /\ after[id].payload.chunk_number = c.chunk_number
                /\ after[id].payload.content = c.content
                /\ after[id].payload.metadata = c.metadata

\* C8: with S the chunks of the batch that have a non-empty embedding, a
\* store_embeddings that reports success has written exactly the chunks of S (a
\* later chunk replacing an earlier one of the same identifier, nothing else
\* changed) and returns the identifiers of S in input order; when S is empty it
\* returns (true, []) and the engine is as before.
C8_SkipEmptyEmbedding ==
    \A p \in Callers :
        Done(p, "store_embeddings") =>
            LET S == NonEmpty(call[p].chunks)
            IN /\ S = <<>> =>
                    /\ result[p] = RetPair(TRUE, <<>>)
                    /\ collections = pre[p].collections
               /\ S # <<>> /\ result[p].ok =>
                    /\ result[p].ids =
                          [i \in DOMAIN S |-> PointId(S[i].document_id, S[i].chunk_number)]
                    /\ Exists(collections, CollectionName)
                    /\ WroteExactly(p, S)

C8_Witness ==
    \E p \in Callers :
        /\ Done(p, "store_embeddings")
        /\ result[p].tag = "pair" /\ result[p].ok
        /\ Len(call[p].chunks) = 2
        /\ Len(result[p].ids) = 1
        /\ call[p].chunks[1].embedding = <<>>

----------------------------------------------------------------------------
(* C9 *)

\* C9: store_embeddings on an empty list or on chunks that all have an empty
\* embedding returns (true, []), and get_chunks_by_id on an empty identifier list
\* returns [], without a single remote attempt and with the engine untouched.
C9_ShortCircuits ==
    \A p \in Callers :
        /\ Done(p, "store_embeddings")
              /\ (\A i \in DOMAIN call[p].chunks : call[p].chunks[i].embedding = <<>>) =>
              /\ result[p] = RetPair(TRUE, <<>>)
              /\ log[p] = <<>>
              /\ collections = pre[p].collections
        /\ Done(p, "get_chunks_by_id") /\ call[p].chunk_identifiers = <<>> =>
              /\ result[p] = RetChunks(<<>>)
              /\ log[p] = <<>>
              /\ collections = pre[p].collections

C9_Witness ==
    \E p \in Callers :
        /\ Done(p, "store_embeddings")
        /\ call[p].chunks # <<>>
        /\ \A i \in DOMAIN call[p].chunks : call[p].chunks[i].embedding = <<>>
        /\ log[p] = <<>>
        /\ ~Exists(collections, CollectionName)

----------------------------------------------------------------------------
(* C10 *)

\* the chunks of sequence cs that carry the pair (document_id, chunk_number)
WithPair(cs, pair) ==
    {i \in DOMAIN cs : cs[i].document_id = pair[1] /\ cs[i].chunk_number = pair[2]}

\* C10: a get_chunks_by_id that directly follows a successful store_embeddings and
\* whose retrieve call succeeds returns, for every requested pair the store
\* wrote, exactly one chunk: the one stored last under the pair, with its
\* content and metadata, an empty embedding and score 0.  Whatever went before,
\* it returns a chunk only for requested pairs the engine holds, so that a pair
\* never stored is absent, and it returns a list.
C10_StoreFetchRoundTrip ==
    \A p \in Callers :
        Done(p, "get_chunks_by_id") /\ Succeeded(p, "retrieve") =>
            LET got == result[p].chunks
                asked == Range(call[p].chunk_identifiers)
                held == pre[p].collections[CollectionName].points
            IN /\ result[p].tag = "chunks"
               /\ \A pair \in asked \cap DOMAIN prevStored[p] :
                     /\ Cardinality(WithPair(got, pair)) = 1
                     /\ \E i \in DOMAIN got :
                           got[i] = DocumentChunk(pair[1], pair[2],
                                                  prevStored[p][pair].content, <<>>,
                                                  prevStored[p][pair].metadata, 0)
               /\ \A i \in DOMAIN got :
                     /\ <<got[i].document_id, got[i].chunk_number>> \in asked
                     /\ \E id \in DOMAIN held :
                           /\ held[id].payload.document_id = got[i].document_id
                           /\ held[id].payload.chunk_number = got[i].chunk_number
                     /\ got[i].embedding = <<>> /\ got[i].score = 0

C10_Witness ==
    \E p \in Callers :
        /\ Done(p, "get_chunks_by_id") /\ Succeeded(p, "retrieve")
        /\ call[p].chunk_identifiers = <<<<DocB, 0>>, <<DocA, 0>>>>
        /\ DOMAIN prevStored[p] = {<<DocA, 0>>, <<DocA1, 0>>}
        /\ prevStored[p][<<DocA, 0>>].metadata = SomeMeta
        /\ Len(result[p].chunks) = 1
        /\ result[p].chunks[1].content = "y"
        /\ result[p].chunks[1].metadata = SomeMeta

----------------------------------------------------------------------------
(* C11 *)

\* the points of collection c whose payload names document d
PointsOf(c, d) == {id \in DOMAIN c.points : c.points[id].payload.document_id = d}

\* the chunks of sequence cs that belong to document d
ChunksOf(cs, d) == {i \in DOMAIN cs : cs[i].document_id = d}

\* C11: once delete_chunks_by_document_id(doc) has returned true the engine holds
\* no chunk of doc, and the query_similar or get_chunks_by_id that follows it
\* (nothing being stored in between) returns no chunk whose document_id is doc;
\* a delete of a document without chunks, no attempt failing, returns true and
\* leaves the engine as it was, as does the repetition of a successful delete.
C11_DeletionCompleteness ==
    \A p \in Callers :
        /\ Done(p, "delete_chunks_by_document_id") /\ result[p] = RetBool(TRUE) =>
              /\ Exists(collections, CollectionName)
              /\ PointsOf(collections[CollectionName], call[p].document_id) = {}
        /\ pc[p] = "done" /\ call[p].op \in {"query_similar", "get_chunks_by_id"}
              /\ prevDeleted[p] # <<>> =>
              ChunksOf(result[p].chunks, prevDeleted[p]) = {}
        /\ Done(p, "delete_chunks_by_document_id") /\ FailureFree(p)
              /\ Exists(pre[p].collections, CollectionName)
              /\ PointsOf(pre[p].collections[CollectionName], call[p].document_id) = {} =>
              /\ result[p] = RetBool(TRUE)
              /\ collections = pre[p].collections
        /\ Done(p, "delete_chunks_by_document_id") /\ FailureFree(p)
              /\ prevDeleted[p] = call[p].document_id =>
              /\ result[p] = RetBool(TRUE)
              /\ collections = pre[p].collections

C11_Witness ==
    \E p \in Callers :
        /\ Done(p, "query_similar")
        /\ prevDeleted[p] = DocA
        /\ call[p].doc_ids = NoDocIds
        /\ Len(result[p].chunks) = 1
        /\ result[p].chunks[1].document_id = DocA1

----------------------------------------------------------------------------
(* C12 *)

\* C12: whenever query_similar is given a doc_ids list, the empty list included,
\* every chunk it returns has a document_id that is a member of the list.
C12_RestrictsWheneverProvided ==
    \A p \in Callers :
        Done(p, "query_similar") /\ ~call[p].doc_ids.none =>
            \A i \in DOMAIN result[p].chunks :
                result[p].chunks[i].document_id \in Range(call[p].doc_ids.list)

----------------------------------------------------------------------------
(* C13 *)

\* chunk c is the point of collection c0 stored under id, scored against q
IsScored(c, c0, id, q) ==
    /\ c.document_id = c0.points[id].payload.document_id
    /\ c.chunk_number = c0.points[id].payload.chunk_number
    /\ c.content = c0.points[id].payload.content
    /\ c.metadata = c0.points[id].payload.metadata
    /\ c.score = Dot(q, c0.points[id].vector)

\* C13: a query_similar(q, k) whose search call succeeds returns at most k
\* chunks, each with an empty embedding and each a point the engine holds with
\* the score being the engine's similarity of that point to q, in descending
\* order of score, no point twice; without doc_ids it returns min(k, points
\* held) chunks and no point left out scores higher than one returned.
C13_QueryResultShape ==
    \A p \in Callers :
        Done(p, "query_similar") /\ Succeeded(p, "search") =>
            LET got  == result[p].chunks
                q    == call[p].query_embedding
                c0   == pre[p].collections[CollectionName]
            IN /\ Len(got) <= call[p].k
               /\ \A i \in DOMAIN got : got[i].embedding = <<>>
               /\ \A i \in DOMAIN got :
                     \E id \in DOMAIN c0.points : IsScored(got[i], c0, id, q)
               /\ \A i, j \in DOMAIN got : i < j => got[i].score >= got[j].score
               /\ \A i, j \in DOMAIN got : i # j =>
                     <<got[i].document_id, got[i].chunk_number>> #
                     <<got[j].document_id, got[j].chunk_number>>
               /\ call[p].doc_ids = NoDocIds =>
                     /\ Len(got) = MinOf(call[p].k, Cardinality(DOMAIN c0.points))
                     /\ \A id \in DOMAIN c0.points :
                           \/ \E i \in DOMAIN got : IsScored(got[i], c0, id, q)
                           \/ \A i \in DOMAIN got : Dot(q, c0.points[id].vector) <= got[i].score

C13_Witness ==
    \E p \in Callers :
        /\ Done(p, "query_similar") /\ Succeeded(p, "search")
        /\ call[p].k = 2
        /\ Len(result[p].chunks) = 2
        /\ result[p].chunks[1].score = 1
        /\ result[p].chunks[2].score = 0

----------------------------------------------------------------------------
(* C14 *)

\* C14: for every interleaving of two initialize() calls, no request or response
\* being lost, both calls return true, the collection is in place with the
\* configured dimensionality once both have returned, and a collection that has
\* the configured dimensionality is never deleted.
C14_ConcurrentInitialize ==
    /\ [](\A p \in Callers : Done(p, "initialize") => result[p] = RetBool(TRUE))
    /\ []((\A p \in Callers : Done(p, "initialize")) => Ready(collections))
    /\ [][Ready(collections) => Exists(collections', CollectionName)]_vars

----------------------------------------------------------------------------
(* C15 *)

\* C15: when get_collections has failed on all its attempts, initialize() goes
\* on to create_collection and to nothing else: it issues neither
\* get_collection nor delete_collection, and it returns true exactly if an
\* attempt of create_collection succeeds.
C15_FailOpenOnListFailure ==
    \A p \in Callers :
        call[p].op = "initialize" /\ "get_collections" \in exhausted[p] =>
            /\ ~Issued(p, "get_collection")
            /\ ~Issued(p, "delete_collection")
            /\ pc[p] # "done" =>
                  \/ At(p, "get_collections", "raised")
                  \/ site[p] = "create_collection"
            /\ pc[p] = "done" =>
                  /\ Issued(p, "create_collection")
                  /\ result[p] = RetBool(Succeeded(p, "create_collection"))

C15_Witness ==
    \E p \in Callers :
        /\ Done(p, "initialize")
        /\ exhausted[p] = {"get_collections", "create_collection"}
        /\ Exists(collections, CollectionName)
        /\ result[p] = RetBool(FALSE)

----------------------------------------------------------------------------
(* C16 *)

\* C16: when an attempt of _retry_operation succeeds, it is attempt n with
\* 1 <= n <= max_retries, the n - 1 attempts before it failed, exactly n - 1
\* delays were taken, the result of that attempt is returned and no error is
\* raised; and in no call is an operation attempted again after an attempt of
\* it succeeded.
C16_StopsAtFirstSuccess ==
    \A p \in Callers :
        /\ pc[p] = "returned" =>
              LET n == Tried(p)
              IN /\ 1 <= n /\ n <= max_retries
                 /\ attempt[p] = n - 1
                 /\ delays[p] = n - 1
                 /\ log[p][Len(log[p])] = LogEntry(site[p], TRUE, None)
                 /\ \A i \in 1..(Len(log[p]) - 1) : log[p][i].site = site[p] => ~log[p][i].ok
                 /\ ret[p].err = None
                 /\ site[p] \notin exhausted[p]
        /\ \A i, j \in DOMAIN log[p] :
              i < j /\ log[p][i].ok => log[p][j].site # log[p][i].site

C16_Witness ==
    \E p \in Callers :
        /\ pc[p] = "returned"
        /\ site[p] = "upsert"
        /\ Tried(p) = 2
        /\ delays[p] = 1
        /\ log[p][1].err = Error("transit", 1)

----------------------------------------------------------------------------
(* C17 *)

\* the attempts of site s in log l are those of one _retry_operation: adjacent,
\* at most max_retries of them, none after a successful one
OneOperation(l, s) ==
    LET at == {i \in DOMAIN l : l[i].site = s}
    IN /\ \A i, k \in at : \A j \in i..k : j \in at
       /\ Cardinality(at) <= max_retries
       /\ \A i, j \in at : i < j => ~l[i].ok

\* C17: in an initialize() call of a single caller, whatever attempts fail,
\* delete_collection is issued only after an attempt of get_collection
\* succeeded, and only when the collection found had another dimensionality
\* than the configured one; a collection of the configured dimensionality is
\* still there, untouched, throughout the call; and the call issues at most one
\* delete_collection and at most one create_collection operation.
C17_DeleteOnlyOnMismatch ==
    \A p \in Callers :
        call[p].op = "initialize" =>
            /\ \A j \in DOMAIN log[p] :
                  log[p][j].site = "delete_collection" =>
                      /\ \E i \in 1..(j - 1) : log[p][i] = LogEntry("get_collection", TRUE, None)
                      /\ Mismatched(pre[p].collections)
            /\ site[p] = "delete_collection" =>
                  /\ Succeeded(p, "get_collection")
                  /\ Mismatched(pre[p].collections)
            /\ Ready(pre[p].collections) =>
                  /\ ~Issued(p, "delete_collection")
                  /\ collections = pre[p].collections
            /\ OneOperation(log[p], "delete_collection")
            /\ OneOperation(log[p], "create_collection")

C17_Witness ==
    \E p \in Callers :
        /\ Done(p, "initialize")
        /\ Ready(pre[p].collections)
        /\ pre[p].collections[CollectionName].points # NoPoints
        /\ exhausted[p] = {"get_collection", "create_collection"}
        /\ collections = pre[p].collections

----------------------------------------------------------------------------
(* C18 *)

PairOf(x) == <<x.document_id, x.chunk_number>>

\* the pairs (document_id, chunk_number) at hand: those of the points the
\* engine holds, of the chunks passed by caller p, of the identifiers it asks for
PairsInView(p) ==
    (IF Exists(collections, CollectionName)
     THEN {PairOf(collections[CollectionName].points[id].payload) :
              id \in DOMAIN collections[CollectionName].points}
     ELSE {})
    \cup {PairOf(call[p].chunks[i]) : i \in DOMAIN call[p].chunks}
    \cup Range(call[p].chunk_identifiers)

\* C18: the identifier of a pair (document_id, chunk_number) is a function of
\* the pair, and two different pairs never get the same identifier, also when
\* a document_id contains "_": every point the engine holds is stored under the
\* identifier of its own pair, and a store_embeddings, whatever its outcome,
\* leaves every point whose pair is not among the chunks it writes in place and
\* unchanged.
C18_IdentifierInjective ==
    \A p \in Callers :
        /\ \A a, b \in PairsInView(p) :
              PointId(a[1], a[2]) = PointId(b[1], b[2]) => a = b
        /\ site[p] = "upsert" =>
              \A i \in DOMAIN locals[p].points :
                  /\ locals[p].points[i].id = PointId(locals[p].points[i].payload.document_id,
                                                      locals[p].points[i].payload.chunk_number)
                  /\ locals[p].stored_ids[i] = locals[p].points[i].id
        /\ Exists(collections, CollectionName) =>
              \A id \in DOMAIN collections[CollectionName].points :
                  id = PointId(collections[CollectionName].points[id].payload.document_id,
                               collections[CollectionName].points[id].payload.chunk_number)
        /\ Done(p, "store_embeddings") /\ Exists(pre[p].collections, CollectionName) =>
              LET before == pre[p].collections[CollectionName].points
                  S == NonEmpty(call[p].chunks)
              IN \A id \in DOMAIN before :
                    PairOf(before[id].payload) \notin {PairOf(S[i]) : i \in DOMAIN S} =>
                        /\ Exists(collections, CollectionName)
                        /\ id \in DOMAIN collections[CollectionName].points
                        /\ collections[CollectionName].points[id] = before[id]

C18_Witness ==
    \E p \in Callers :
        /\ Done(p, "store_embeddings")
        /\ result[p] = RetPair(TRUE, <<PointId(DocA1, 0)>>)
        /\ PointId(DocA, 0) \in DOMAIN pre[p].collections[CollectionName].points
        /\ PointId(DocA1, 0) \notin DOMAIN pre[p].collections[CollectionName].points
        /\ DOMAIN collections[CollectionName].points = {PointId(DocA, 0), PointId(DocA1, 0)}

----------------------------------------------------------------------------
(* C19 *)

\* C19: delete_chunks_by_document_id(d), whatever its outcome, issues nothing
\* but delete calls, leaves the collection in place with its dimensionality,
\* adds no point and leaves every point whose document_id is not exactly d in
\* place and unchanged, those of a document named d followed by "_" included;
\* when it returns true the points left are exactly those.  The
\* get_chunks_by_id that follows a successful delete returns, its retrieve call
\* succeeding, every requested chunk of another document that the engine holds.
C19_DeletesOnlyTheDocument ==
    \A p \in Callers :
        /\ Done(p, "delete_chunks_by_document_id") =>
              /\ \A i \in DOMAIN log[p] : log[p][i].site = "delete"
              /\ DOMAIN collections = DOMAIN pre[p].collections
              /\ collections[OtherName] = pre[p].collections[OtherName]
              /\ Exists(collections, CollectionName) =>
                    LET before == pre[p].collections[CollectionName]
                        after  == collections[CollectionName]
                        others == DOMAIN before.points \ PointsOf(before, call[p].document_id)
                    IN /\ after.size = before.size /\ after.distance = before.distance
                       /\ DOMAIN after.points \subseteq DOMAIN before.points
                       /\ others \subseteq DOMAIN after.points
                       /\ \A id \in others : after.points[id] = before.points[id]
                       /\ result[p] = RetBool(TRUE) => DOMAIN after.points = others
        /\ Done(p, "get_chunks_by_id") /\ Succeeded(p, "retrieve") /\ prevDeleted[p] # <<>> =>
              LET held == pre[p].collections[CollectionName].points
              IN \A pair \in Range(call[p].chunk_identifiers) :
                    pair[1] # prevDeleted[p] /\ PointId(pair[1], pair[2]) \in DOMAIN held =>
                        \E i \in DOMAIN result[p].chunks :
                            result[p].chunks[i] =
                                DocumentChunk(pair[1], pair[2],
                                              held[PointId(pair[1], pair[2])].payload.content, <<>>,
                                              held[PointId(pair[1], pair[2])].payload.metadata, 0)

C19_Witness ==
    \E p \in Callers :
        /\ Done(p, "delete_chunks_by_document_id")
        /\ call[p].document_id = DocA
        /\ result[p] = RetBool(TRUE)
        /\ PointsOf(pre[p].collections[CollectionName], DocA) # {}
        /\ PointsOf(pre[p].collections[CollectionName], DocA1) # {}
        /\ DOMAIN collections[CollectionName].points = {PointId(DocA1, 0)}

----------------------------------------------------------------------------
(* C20 *)

\* the call of caller p gets as far as a remote operation
ReachesBackend(p) ==
    CASE call[p].op = "store_embeddings" -> NonEmpty(call[p].chunks) # <<>>
      [] call[p].op = "get_chunks_by_id" -> call[p].chunk_identifiers # <<>>
      [] call[p].op = "close"            -> FALSE
      [] OTHER                           -> TRUE

\* C20: with max_retries 0 or negative no attempt is ever made and no delay
\* taken, the engine stays as it is, and _retry_operation raises all the same
\* (the TypeError of `raise None`); every contract method that reaches a remote
\* operation returns its failure value, and initialize() returns false having
\* listed, deleted and created nothing.
C20_NoAttemptWithoutRetries ==
    max_retries <= 0 =>
        \A p \in Callers :
            /\ call[p].op # "close" => log[p] = <<>>
            /\ pc[p] \notin {"returned", "sleep"}
            /\ attempt[p] = 0 /\ delays[p] = 0
            /\ pc[p] # "idle" => collections = pre[p].collections
            /\ pc[p] = "raised" => ret[p].err = TypeError
            /\ pc[p] = "done" /\ ReachesBackend(p) =>
                  /\ result[p] = FailureSignal(call[p].op)
                  /\ LastSite(call[p].op) \in exhausted[p]
            /\ Done(p, "initialize") =>
                  /\ result[p] = RetBool(FALSE)
                  /\ exhausted[p] = {"get_collections", "create_collection"}

C20_Witness ==
    \E p \in Callers :
        /\ max_retries = 0
        /\ Done(p, "initialize")
        /\ result[p] = RetBool(FALSE)
        /\ log[p] = <<>>
        /\ ~Exists(collections, CollectionName)

----------------------------------------------------------------------------
(* C21 *)

\* the place of a remote operation in the lifecycle of initialize()
Stage(s) ==
    CASE s = "get_collections"   -> 1
      [] s = "get_collection"    -> 2
      [] s = "delete_collection" -> 3
      [] s = "create_collection" -> 4
      [] OTHER                   -> 0

\* the remote operations the call of caller p has started so far
Operations(p) ==
    {log[p][i].site : i \in DOMAIN log[p]} \cup
    (IF pc[p] \in {"retry", "sleep", "returned", "raised"} THEN {site[p]} ELSE {})

\* C21: every contract method that has been entered returns, provided every
\* remote call and every sleep ends; no remote operation is attempted more than
\* max_retries times in a call; and initialize() runs at most the four
\* operations list, get, delete, create, in this order, never going back to an
\* earlier one.
C21_EveryCallReturns ==
    /\ \A p \in SeqCallers : (pc[p] \notin {"idle", "done"}) ~> (pc[p] = "done")
    /\ [](\A p \in Callers :
            /\ \A s \in Operations(p) :
                  Cardinality({i \in DOMAIN log[p] : log[p][i].site = s}) <= max_retries
            /\ pc[p] \in {"retry", "sleep"} => attempt[p] = Tried(p)
            /\ call[p].op = "initialize" =>
                  /\ Operations(p) \subseteq {"get_collections", "get_collection",
                                              "delete_collection", "create_collection"}
                  /\ \A i, j \in DOMAIN log[p] :
                        i < j => Stage(log[p][i].site) <= Stage(log[p][j].site)
                  /\ pc[p] # "done" =>
                        \A i \in DOMAIN log[p] : Stage(log[p][i].site) <= Stage(site[p])
            /\ call[p].op \notin {"initialize", "none"} => Cardinality(Operations(p)) <= 1)

C21_Witness ==
    \E p \in Callers :
        /\ Done(p, "initialize")
        /\ max_retries = MaxRetries
        /\ {log[p][i].site : i \in DOMAIN log[p]} =
              {"get_collections", "get_collection", "delete_collection", "create_collection"}
        /\ Len(log[p]) = 4 * MaxRetries
        /\ result[p] = RetBool(FALSE)

====
